---- MODULE Spec2Model ----
(***************************************************************************)
(* Climate-risk dashboard (src/app.py): the portfolio generator with its   *)
(* CSV cache, the stress engine, and the dashboard metrics.                *)
(*                                                                         *)
(* Numbers.  The program computes in floating point; the model computes    *)
(* the same formulas exactly, on scaled integers:                          *)
(*   Flood_Risk, Heat_Risk, severity   hundredths      (0.90 -> 90)        *)
(*   Property_Value, Loan_Amount,                                          *)
(*   Stressed_Value                    rupees                              *)
(*   Lat, Lon                          hundredths of a degree              *)
(*   Customer_Name                     the number n of "Cust_n"            *)
(*   Base_PD, Stressed_PD, Stressed_LTV and the crore amounts are          *)
(*   quotients, kept as the pair num/den.                                  *)
(*   a uniform fraction is the pair <<num, den>>.                          *)
(***************************************************************************)
EXTENDS Integers, Sequences, FiniteSets, TLC

(* for _ in range(200): the number of loans generated, scaled down *)
NumLoans == 2

Range(s) == {s[i] : i \in DOMAIN s}

RECURSIVE SumSeq(_)
SumSeq(s) == IF s = <<>> THEN 0 ELSE Head(s) + SumSeq(Tail(s))

------------------------------------------------------------------------------
(* PART 1: data generation                                                  *)

(* a faulty variant of risk_data: the reference list with a district that
   np.random.choice can draw left out *)
risk_data_without_kolkata ==
  << [District |-> "Mumbai Suburban", Flood_Risk |-> 90, Heat_Risk |-> 50, Lat |-> 1907, Lon |-> 7287],
     [District |-> "Bengaluru Urban", Flood_Risk |-> 75, Heat_Risk |-> 45, Lat |-> 1297, Lon |-> 7759],
     [District |-> "Chennai",         Flood_Risk |-> 95, Heat_Risk |-> 70, Lat |-> 1308, Lon |-> 8027],
     [District |-> "Jaipur",          Flood_Risk |-> 20, Heat_Risk |-> 98, Lat |-> 2691, Lon |-> 7578],
     [District |-> "Patna",           Flood_Risk |-> 90, Heat_Risk |-> 80, Lat |-> 2559, Lon |-> 8513],
     [District |-> "Gurugram",        Flood_Risk |-> 30, Heat_Risk |-> 88, Lat |-> 2845, Lon |-> 7702],
     [District |-> "Hyderabad",       Flood_Risk |-> 60, Heat_Risk |-> 85, Lat |-> 1738, Lon |-> 7848] >>

(* risk_data / df_risk: one row per district *)
risk_data ==
  << [District |-> "Mumbai Suburban", Flood_Risk |-> 90, Heat_Risk |-> 50, Lat |-> 1907, Lon |-> 7287],
     [District |-> "Bengaluru Urban", Flood_Risk |-> 75, Heat_Risk |-> 45, Lat |-> 1297, Lon |-> 7759],
     [District |-> "Chennai",         Flood_Risk |-> 95, Heat_Risk |-> 70, Lat |-> 1308, Lon |-> 8027],
     [District |-> "Jaipur",          Flood_Risk |-> 20, Heat_Risk |-> 98, Lat |-> 2691, Lon |-> 7578],
     [District |-> "Patna",           Flood_Risk |-> 90, Heat_Risk |-> 80, Lat |-> 2559, Lon |-> 8513],
     [District |-> "Gurugram",        Flood_Risk |-> 30, Heat_Risk |-> 88, Lat |-> 2845, Lon |-> 7702],
     [District |-> "Hyderabad",       Flood_Risk |-> 60, Heat_Risk |-> 85, Lat |-> 1738, Lon |-> 7848],
     [District |-> "Kolkata",         Flood_Risk |-> 85, Heat_Risk |-> 60, Lat |-> 2257, Lon |-> 8836] >>

(* risk_data['District']: what np.random.choice draws from *)
Districts == {"Mumbai Suburban", "Bengaluru Urban", "Chennai", "Jaipur",
              "Patna", "Gurugram", "Hyderabad", "Kolkata"}

(* if district in ['Mumbai Suburban', 'Gurugram'] *)
IsMetro(district) == district \in {"Mumbai Suburban", "Gurugram"}

(* np.random.randint(low, high) draws from low .. high-1 *)
MetroLow == 80
MetroHigh == 250
OtherLow == 30
OtherHigh == 90
Lakh == 100000

RandintRange(district) ==
  IF IsMetro(district) THEN MetroLow .. (MetroHigh - 1) ELSE OtherLow .. (OtherHigh - 1)

(* the draws of np.random.randint the model enumerates: the ends of the range *)
RandintDraws(district, ends) ==
  {k \in RandintRange(district) :
     \/ "low" \in ends /\ k - 1 \notin RandintRange(district)
     \/ "high" \in ends /\ k + 1 \notin RandintRange(district)}

(* prop_val = np.random.randint(..) * 100000 *)
PropVal(k) == k * Lakh

(* the floor of x * num / den, by parts so that no product leaves 32 bits *)
FloorMul(x, num, den) == (x \div den) * num + ((x % den) * num) \div den

(* a faulty variant of LoanAmt: the fraction drawn from [1.6, 1.85] *)
LoanAmtOverdrawn(prop_val, frac) == FloorMul(prop_val, frac[1] + frac[2], frac[2])

(* loan_amt = int(prop_val * np.random.uniform(0.6, 0.85)); int() truncates,
   which on a positive product is the floor *)
LoanAmt(prop_val, frac) == FloorMul(prop_val, frac[1], frac[2])

(* one iteration of the loop: the dict appended to loans *)
NewLoan(draw) ==
  [ Loan_ID        |-> draw.loan_id,
    Customer_Name  |-> draw.cust,
    District       |-> draw.district,
    Property_Value |-> PropVal(draw.k),
    Loan_Amount    |-> LoanAmt(PropVal(draw.k), draw.frac),
    Base_PD        |-> draw.base_pd ]

(* the random draws of one iteration, over the given sets: the district
   (np.random.choice), the randint of its tier, the uniform fraction, Base_PD,
   Loan_ID and the customer number *)
LoanDraws(districts, ends, fracs, pds) ==
  UNION { { [district |-> d, k |-> k, frac |-> f, base_pd |-> b,
             loan_id |-> 10000, cust |-> 1] :
              k \in RandintDraws(d, ends), f \in fracs, b \in pds } : d \in districts }

(* np.random.uniform(0.6, 0.85): both ends, a fraction whose product is not
   an integer, and 0.846, which puts Stressed_LTV on 0.90 in Jaipur at
   severity 0.30 *)
FracDraws == { <<3, 5>>, <<2, 3>>, <<423, 500>>, <<17, 20>> }

(* np.random.uniform(0.01, 0.05): both ends, 0.03, and 1/35, which puts
   Stressed_PD on 0.15 in Hyderabad at severity 0.50 *)
PdDraws == { [num |-> 1, den |-> 100], [num |-> 3, den |-> 100],
             [num |-> 1, den |-> 35],  [num |-> 1, den |-> 20] }

(* the columns of df_loans, then those df_risk adds *)
Columns == << "Loan_ID", "Customer_Name", "District", "Property_Value",
              "Loan_Amount", "Base_PD", "Flood_Risk", "Heat_Risk", "Lat", "Lon" >>

JoinRow(l, r) ==
  [ Loan_ID        |-> l.Loan_ID,
    Customer_Name  |-> l.Customer_Name,
    District       |-> l.District,
    Property_Value |-> l.Property_Value,
    Loan_Amount    |-> l.Loan_Amount,
    Base_PD        |-> l.Base_PD,
    Flood_Risk     |-> r.Flood_Risk,
    Heat_Risk      |-> r.Heat_Risk,
    Lat            |-> r.Lat,
    Lon            |-> r.Lon ]

(* the rows of right whose key equals the left row's, in right's order *)
RECURSIVE MatchRows(_, _)
MatchRows(l, right) ==
  IF right = <<>> THEN <<>>
  ELSE (IF Head(right).District = l.District THEN << JoinRow(l, Head(right)) >> ELSE <<>>)
       \o MatchRows(l, Tail(right))

(* pd.merge(df_loans, df_risk, on='District'): an inner join, in the order
   of the left keys *)
RECURSIVE Merge(_, _)
Merge(left, right) ==
  IF left = <<>> THEN <<>>
  ELSE MatchRows(Head(left), right) \o Merge(Tail(left), right)

(* lines 12-44: the loop over the draws, then the merge: df_final *)
MakePortfolio(draws) ==
  Merge([i \in DOMAIN draws |-> NewLoan(draws[i])], risk_data)

(* df_final.to_csv(path, index=False): a header line, then one line of
   fields per row, in column order, and no index column *)
HeaderLine == [kind |-> "header", fields |-> Columns]

RowLine(row) == [kind |-> "row", fields |-> [j \in DOMAIN Columns |-> row[Columns[j]]]]

ToCsv(df) == << HeaderLine >> \o [i \in DOMAIN df |-> RowLine(df[i])]

(* what a write that started beyond the end of the file leaves before it *)
HoleLine == [kind |-> "hole", fields |-> <<>>]

(* pd.read_csv gives a frame with the columns the script uses: there is a
   header line and only rows after it.  An empty file raises EmptyDataError;
   a file that starts with a hole has no such columns. *)
Parses(lines) ==
  /\ lines # <<>>
  /\ lines[1].kind = "header"
  /\ \A i \in 2 .. Len(lines) : lines[i].kind = "row"

ColumnIndex(cols, c) == CHOOSE j \in DOMAIN cols : cols[j] = c

(* pd.read_csv(path): the first line names the columns, every other line is
   a row, and the index is a fresh 0..n-1 *)
ReadCsv(lines) ==
  LET cols == lines[1].fields
  IN  [ i \in 1 .. (Len(lines) - 1) |->
          [ c \in Range(cols) |-> lines[i + 1].fields[ColumnIndex(cols, c)] ] ]

(* a faulty variant of CacheExists: a file that is not a whole portfolio
   counts as absent *)
CacheExistsOrValid(f) == f.exists /\ Parses(f.lines) /\ Len(f.lines) = NumLoans + 1

(* os.path.exists('realistic_loan_book.csv') *)
CacheExists(f) == f.exists

(* generate_data(), run without interruption on cache file f with the random
   draws given: the path it took, what it returned and the file it left *)
generate_data(f, draws) ==
  IF ~ CacheExists(f)
  THEN LET df_final == MakePortfolio(draws)
       IN  [ path |-> "generated", df |-> df_final,
             file |-> [exists |-> TRUE, lines |-> ToCsv(df_final)] ]
  ELSE IF Parses(f.lines)
       THEN [ path |-> "cache", df |-> ReadCsv(f.lines), file |-> f ]
       ELSE [ path |-> "error", df |-> <<>>, file |-> f ]
------------------------------------------------------------------------------
(* PART 3: the sidebar                                                      *)

(* the options of st.sidebar.radio *)
Scenarios == {"Scenario A", "Scenario B", "Scenario C"}

(* if "Scenario A" in scenario: 0.15, elif "Scenario B" ...: 0.30, else 0.50 *)
Severity(scenario) ==
  IF scenario = "Scenario A" THEN 15
  ELSE IF scenario = "Scenario B" THEN 30
  ELSE 50

Severities == {Severity(s) : s \in Scenarios}

------------------------------------------------------------------------------
(* PART 4: the math engine                                                  *)

(* faulty variants of StressedValue: with the factor 10 of the heat
   formula, and with the shock added instead of taken off *)
StressedValueHeatFormula(property_value, flood_risk, severity) ==
  (property_value \div 10000) * (10000 - flood_risk * severity * 10)

StressedValueGain(property_value, flood_risk, severity) ==
  (property_value \div 10000) * (10000 + flood_risk * severity)

(* Property_Value * (1 - Flood_Risk * severity), exact whenever
   property_value is a multiple of 10^4 rupees *)
StressedValue(property_value, flood_risk, severity) ==
  (property_value \div 10000) * (10000 - flood_risk * severity)

(* Loan_Amount / Stressed_Value, kept as the quotient num/den *)
StressedLTV(loan_amount, stressed_value) ==
  [num |-> loan_amount, den |-> stressed_value]

(* a faulty variant of StressedPD: the 1 + left out *)
StressedPDWithoutOne(base_pd, heat_risk, severity) ==
  [num |-> base_pd.num * (heat_risk * severity), den |-> base_pd.den * 1000]

(* Base_PD * (1 + Heat_Risk * severity * 10), as a quotient *)
StressedPD(base_pd, heat_risk, severity) ==
  [num |-> base_pd.num * (1000 + heat_risk * severity), den |-> base_pd.den * 1000]

(* q > 0.15 for a quotient q with a positive denominator *)
PdAbove(q) == q.num * 20 > 3 * q.den

PdAtMost(q) == q.num * 20 <= 3 * q.den

(* q > 0.90 and q <= 0.90 for a quotient q: a division by zero gives inf (or
   nan for 0/0) and a negative denominator a negative quotient *)
LtvAbove(q) ==
  IF q.den > 0 THEN q.num * 10 > 9 * q.den
  ELSE IF q.den = 0 THEN q.num > 0
  ELSE (0 - q.num) * 10 > 9 * (0 - q.den)

LtvAtMost(q) ==
  IF q.den > 0 THEN q.num * 10 <= 9 * q.den
  ELSE IF q.den = 0 THEN q.num < 0
  ELSE (0 - q.num) * 10 <= 9 * (0 - q.den)

(* a faulty variant of Conditions: the critical condition with >= *)
ConditionsInclusive(ltv, pd) ==
  << (ltv.num * 10 >= 9 * ltv.den) \/ (pd.num * 20 >= 3 * pd.den),
     LtvAtMost(ltv) /\ PdAtMost(pd) >>

(* conditions = [ (LTV > 0.90) | (PD > 0.15), (LTV <= 0.90) & (PD <= 0.15) ] *)
Conditions(ltv, pd) ==
  << LtvAbove(ltv) \/ PdAbove(pd),
     LtvAtMost(ltv) /\ PdAtMost(pd) >>

(* np.select(condlist, choicelist, default): the choice of the first
   condition that holds, the default when none does *)
NpSelect(condlist, choicelist, default) ==
  IF \E i \in DOMAIN condlist : condlist[i]
  THEN choicelist[CHOOSE i \in DOMAIN condlist :
                    condlist[i] /\ \A j \in 1 .. (i - 1) : ~ condlist[j]]
  ELSE default

(* lines 73-86 on one row: the four derived columns *)
StressRow(row, severity) ==
  LET sv  == StressedValue(row.Property_Value, row.Flood_Risk, severity)
      ltv == StressedLTV(row.Loan_Amount, sv)
      spd == StressedPD(row.Base_PD, row.Heat_Risk, severity)
  IN  [ Loan_ID        |-> row.Loan_ID,
        Customer_Name  |-> row.Customer_Name,
        District       |-> row.District,
        Property_Value |-> row.Property_Value,
        Loan_Amount    |-> row.Loan_Amount,
        Base_PD        |-> row.Base_PD,
        Flood_Risk     |-> row.Flood_Risk,
        Heat_Risk      |-> row.Heat_Risk,
        Lat            |-> row.Lat,
        Lon            |-> row.Lon,
        Stressed_Value |-> sv,
        Stressed_LTV   |-> ltv,
        Stressed_PD    |-> spd,
        Risk_Status    |-> NpSelect(Conditions(ltv, spd), <<"CRITICAL", "SAFE">>, "SAFE") ]

(* the math engine over the whole frame *)
StressEngine(df, severity) == [i \in DOMAIN df |-> StressRow(df[i], severity)]
------------------------------------------------------------------------------
(* PART 5: the dashboard                                                    *)

(* df[df['Risk_Status'] == 'CRITICAL'] *)
IsCritical(row) == row.Risk_Status = "CRITICAL"

(* a faulty variant of risky_loans: the filter lets every record through *)
IsAnyStatus(row) == row.Risk_Status \in {"CRITICAL", "SAFE"}

risky_loans_unfiltered(sdf) == SelectSeq(sdf, IsAnyStatus)

(* risky_loans = df[df['Risk_Status'] == 'CRITICAL'] *)
risky_loans(sdf) == SelectSeq(sdf, IsCritical)

(* frame['Loan_Amount'].sum() / 10000000, as the quotient num/den *)
Crore == 10000000

InCrores(frame) ==
  [num |-> SumSeq([i \in DOMAIN frame |-> frame[i].Loan_Amount]), den |-> Crore]

(* f"{q:.2f}": the hundredths shown.  The nearer hundredth; when the exact
   quotient lies half way, the float that stands for it lies on either side,
   so either neighbour can be shown. *)
Format2f(q) ==
  LET unit == q.den \div 100
      low  == q.num \div unit
      rest == q.num % unit
  IN  IF 2 * rest < unit THEN {low}
      ELSE IF 2 * rest > unit THEN {low + 1}
      ELSE {low, low + 1}

(* risky_loans[['Loan_ID', 'District', 'Loan_Amount', 'Stressed_LTV', 'Risk_Status']] *)
ReportRow(row) ==
  [ Loan_ID      |-> row.Loan_ID,
    District     |-> row.District,
    Loan_Amount  |-> row.Loan_Amount,
    Stressed_LTV |-> row.Stressed_LTV,
    Risk_Status  |-> row.Risk_Status ]

(* what one run of the script shows (lines 89-115), for every rendering of
   the two amounts: the stressed frame, the three metrics, the report *)
Dashboards(df, scenario) ==
  LET sdf   == StressEngine(df, Severity(scenario))
      risky == risky_loans(sdf)
      capital_at_risk == InCrores(risky)
  IN  { [ scenario        |-> scenario,
          severity        |-> Severity(scenario),
          frame           |-> sdf,
          capital_at_risk |-> capital_at_risk,
          total_label     |-> t,
          capital_label   |-> c,
          count_label     |-> Len(risky),
          report          |-> [i \in DOMAIN risky |-> ReportRow(risky[i])] ] :
        t \in Format2f(InCrores(sdf)), c \in Format2f(capital_at_risk) }

------------------------------------------------------------------------------
(* State                                                                    *)

(* the sessions whose script runs may overlap *)
Renders == {"u1", "u2"}

VARIABLES
  file,    \* realistic_loan_book.csv: [exists, lines]
  pc,      \* pc[r]: where session r's script run stands
  path,    \* path[r]: how r's generate_data() ended: generated, cache, error
  df,      \* df[r]: df_final while generating, then the frame generate_data() returned
  wpos,    \* wpos[r]: the next line to_csv writes
  seen,    \* seen[r]: the lines read_csv was given
  view,    \* view[r]: what r's last completed run shows, <<>> before
  gens,    \* the frames generating invocations returned, in order
  opens    \* every opening of the file for writing: by whom, and whether it existed

vars == << file, pc, path, df, wpos, seen, view, gens, opens >>

Missing == [exists |-> FALSE, lines |-> <<>>]

Idle(r) == pc[r] \in {"idle", "done", "failed"}

InitLocals ==
  /\ pc = [r \in Renders |-> "idle"]
  /\ path = [r \in Renders |-> "none"]
  /\ df = [r \in Renders |-> <<>>]
  /\ wpos = [r \in Renders |-> 0]
  /\ seen = [r \in Renders |-> <<>>]
  /\ view = [r \in Renders |-> <<>>]
  /\ gens = <<>>
  /\ opens = <<>>

------------------------------------------------------------------------------
(* Page renders one at a time: a run of the whole script is one step        *)

(* the draws of one loan the page renders enumerate: every district, both
   ends of the randint range and every fraction in a metro and a non-metro
   district, every Base_PD in one district *)
LoanDrawSet ==
  LoanDraws(Districts, {"low"}, {<<2, 3>>}, {[num |-> 3, den |-> 100]})
    \cup LoanDraws({"Jaipur", "Gurugram"}, {"high"}, {<<2, 3>>}, {[num |-> 3, den |-> 100]})
    \cup LoanDraws({"Jaipur", "Gurugram"}, {"low"}, FracDraws, {[num |-> 3, den |-> 100]})
    \cup LoanDraws({"Hyderabad"}, {"low"}, {<<3, 5>>}, PdDraws)

(* the draws of a whole portfolio *)
PortfolioDraws == [1 .. NumLoans -> LoanDrawSet]

(* the cache file as a run can find it: absent, or left by an earlier
   process that died after opening it or after writing the header *)
InitPage ==
  /\ file \in { Missing,
                [exists |-> TRUE, lines |-> <<>>],
                [exists |-> TRUE, lines |-> << HeaderLine >>] }
  /\ InitLocals

(* lines 54-115, session u1, no other run in progress *)
PageRender(scenario) ==
  LET r == "u1" IN
  /\ \A x \in Renders : Idle(x)
  /\ \E draws \in (IF CacheExists(file) THEN {<<>>} ELSE PortfolioDraws) :
       LET g == generate_data(file, draws) IN
       /\ file' = g.file
       /\ path' = [path EXCEPT ![r] = g.path]
       /\ df' = [df EXCEPT ![r] = g.df]
       /\ seen' = [seen EXCEPT ![r] = IF g.path = "generated" THEN <<>> ELSE file.lines]
       /\ gens' = IF g.path = "generated" THEN Append(gens, g.df) ELSE gens
       /\ opens' = IF g.path = "generated"
                   THEN Append(opens, [by |-> r, existed |-> file.exists])
                   ELSE opens
       /\ IF g.path = "error"
          THEN /\ pc' = [pc EXCEPT ![r] = "failed"]
               /\ view' = [view EXCEPT ![r] = <<>>]
          ELSE /\ pc' = [pc EXCEPT ![r] = "done"]
               /\ \E v \in Dashboards(g.df, scenario) : view' = [view EXCEPT ![r] = v]
  /\ UNCHANGED wpos

NextPage == \E scenario \in Scenarios : PageRender(scenario)

SpecPage == InitPage /\ [][NextPage]_vars
------------------------------------------------------------------------------
(* Overlapping page renders: each session runs the script in its own       *)
(* thread, and a run can be overtaken wherever it touches the file          *)

(* the draws of one loan the overlapping renders enumerate *)
RaceDrawSet == LoanDraws({"Chennai"}, {"low", "high"}, {<<2, 3>>}, {[num |-> 3, den |-> 100]})

Init ==
  /\ file = Missing
  /\ InitLocals

(* a (re)run of the script starts: line 54 calls generate_data() *)
Begin(r) ==
  /\ Idle(r)
  /\ pc' = [pc EXCEPT ![r] = "exists"]
  /\ path' = [path EXCEPT ![r] = "none"]
  /\ df' = [df EXCEPT ![r] = <<>>]
  /\ seen' = [seen EXCEPT ![r] = <<>>]
  /\ view' = [view EXCEPT ![r] = <<>>]
  /\ UNCHANGED << file, wpos, gens, opens >>

(* line 10: if not os.path.exists(...) *)
CheckExists(r) ==
  /\ pc[r] = "exists"
  /\ pc' = [pc EXCEPT ![r] = IF CacheExists(file) THEN "read" ELSE "gen"]
  /\ UNCHANGED << file, path, df, wpos, seen, view, gens, opens >>

(* lines 12-44: df_final *)
Generate(r) ==
  /\ pc[r] = "gen"
  /\ \E draws \in [1 .. NumLoans -> RaceDrawSet] :
       df' = [df EXCEPT ![r] = MakePortfolio(draws)]
  /\ pc' = [pc EXCEPT ![r] = "open"]
  /\ UNCHANGED << file, path, wpos, seen, view, gens, opens >>

(* line 45, to_csv opens the file for writing: created, or cut to nothing *)
OpenWrite(r) ==
  /\ pc[r] = "open"
  /\ file' = [exists |-> TRUE, lines |-> <<>>]
  /\ opens' = Append(opens, [by |-> r, existed |-> file.exists])
  /\ wpos' = [wpos EXCEPT ![r] = 1]
  /\ pc' = [pc EXCEPT ![r] = "write"]
  /\ UNCHANGED << path, df, seen, view, gens >>

(* lines with line number n set to l: at the writer's own offset, over what
   is there, leaving a hole when the file has been cut short meanwhile *)
PutLine(lines, n, l) ==
  [ i \in 1 .. (IF n > Len(lines) THEN n ELSE Len(lines)) |->
      IF i = n THEN l ELSE IF i <= Len(lines) THEN lines[i] ELSE HoleLine ]

(* line 45, to_csv writes its next line *)
WriteLine(r) ==
  /\ pc[r] = "write"
  /\ wpos[r] <= Len(ToCsv(df[r]))
  /\ file' = [file EXCEPT !.lines = PutLine(file.lines, wpos[r], ToCsv(df[r])[wpos[r]])]
  /\ wpos' = [wpos EXCEPT ![r] = wpos[r] + 1]
  /\ UNCHANGED << pc, path, df, seen, view, gens, opens >>

(* lines 45-46: to_csv is through; return df_final *)
ReturnGenerated(r) ==
  /\ pc[r] = "write"
  /\ wpos[r] > Len(ToCsv(df[r]))
  /\ path' = [path EXCEPT ![r] = "generated"]
  /\ gens' = Append(gens, df[r])
  /\ pc' = [pc EXCEPT ![r] = "engine"]
  /\ UNCHANGED << file, df, wpos, seen, view, opens >>

(* line 48: return pd.read_csv(...), or the exception it raises *)
ReadCache(r) ==
  /\ pc[r] = "read"
  /\ seen' = [seen EXCEPT ![r] = file.lines]
  /\ IF Parses(file.lines)
     THEN /\ df' = [df EXCEPT ![r] = ReadCsv(file.lines)]
          /\ path' = [path EXCEPT ![r] = "cache"]
          /\ pc' = [pc EXCEPT ![r] = "engine"]
     ELSE /\ df' = [df EXCEPT ![r] = <<>>]
          /\ path' = [path EXCEPT ![r] = "error"]
          /\ pc' = [pc EXCEPT ![r] = "failed"]
  /\ UNCHANGED << file, wpos, view, gens, opens >>

(* lines 56-115: the scenario, the math engine, the dashboard *)
RunEngine(r) ==
  /\ pc[r] = "engine"
  /\ \E scenario \in Scenarios :
       \E v \in Dashboards(df[r], scenario) : view' = [view EXCEPT ![r] = v]
  /\ pc' = [pc EXCEPT ![r] = "done"]
  /\ UNCHANGED << file, path, df, wpos, seen, gens, opens >>

Next ==
  \E r \in Renders :
    \/ Begin(r)
    \/ CheckExists(r)
    \/ Generate(r)
    \/ OpenWrite(r)
    \/ WriteLine(r)
    \/ ReturnGenerated(r)
    \/ ReadCache(r)
    \/ RunEngine(r)

Spec == Init /\ [][Next]_vars
------------------------------------------------------------------------------
(* Properties                                                               *)

(* session r's last run of the script came through: view[r] is what it shows *)
Shown(r) == pc[r] = "done"

(* the row of the fixed reference list for a district *)
DistrictRisk(district) ==
  risk_data[CHOOSE j \in DOMAIN risk_data : risk_data[j].District = district]

(* C1: in every frame the stress engine produced, at whichever severity, a
   record is CRITICAL exactly when its stressed loan-to-value is above 0.90
   or its stressed default probability is above 0.15, and SAFE otherwise
   (so a value exactly on a threshold is SAFE); there is no third status,
   and one of the two explicit conditions always holds, so the default of
   np.select decides no record. *)
C1_Classification ==
  \A r \in Renders : Shown(r) =>
    \A i \in DOMAIN view[r].frame :
      LET row     == view[r].frame[i]
          ltvHigh == row.Stressed_LTV.num * 10 > 9 * row.Stressed_LTV.den
          pdHigh  == row.Stressed_PD.num * 20 > 3 * row.Stressed_PD.den
      IN  /\ row.Risk_Status \in {"CRITICAL", "SAFE"}
          /\ (row.Risk_Status = "CRITICAL") <=> (ltvHigh \/ pdHigh)
          /\ (row.Risk_Status = "SAFE") <=> ~ (ltvHigh \/ pdHigh)
          /\ \E c \in 1 .. 2 : Conditions(row.Stressed_LTV, row.Stressed_PD)[c]

(* a record whose stressed loan-to-value is exactly 0.90, its default
   probability below 0.15, shown SAFE *)
C1_Witness ==
  \E r \in Renders : Shown(r) /\
    \E i \in DOMAIN view[r].frame :
      LET row == view[r].frame[i]
      IN  /\ row.Stressed_LTV.num * 10 = 9 * row.Stressed_LTV.den
          /\ row.Stressed_PD.num * 20 < 3 * row.Stressed_PD.den
          /\ row.Risk_Status = "SAFE"

(* C2: in every frame the stress engine produced from a generated portfolio,
   at each of the three severities, Stressed_Value is strictly positive, and
   so is the divisor of Stressed_LTV. *)
C2_StressedValuePositive ==
  \A r \in Renders : Shown(r) =>
    \A i \in DOMAIN view[r].frame :
      /\ view[r].severity \in {15, 30, 50}
      /\ view[r].frame[i].Stressed_Value > 0
      /\ view[r].frame[i].Stressed_LTV.den > 0

(* the district with the highest flood risk under the severest scenario *)
C2_Witness ==
  \E r \in Renders : Shown(r) /\ view[r].severity = 50 /\
    \E i \in DOMAIN view[r].frame :
      /\ view[r].frame[i].District = "Chennai"
      /\ view[r].frame[i].Flood_Risk = 95
      /\ view[r].frame[i].Stressed_Value * 1000 = view[r].frame[i].Property_Value * 525

(* C3: after any sequence of page renders, the frame shown has one record per
   loan of the frame generate_data() returned to that run, with the loan's
   own columns unchanged and
     Stressed_Value = Property_Value * (1 - flood_risk * severity)
     Stressed_LTV   = Loan_Amount / Stressed_Value
     Stressed_PD    = Base_PD * (1 + heat_risk * severity * 10)
   for the flood and heat risk of the loan's district in the reference list
   and the severity of the scenario selected in that run alone; and
   1,000,000 at flood risk 0.90 and severity 0.50 gives 550,000. *)
C3_PureFormulas ==
  /\ StressedValue(1000000, 90, 50) = 550000
  /\ \A r \in Renders : Shown(r) =>
       LET v == view[r] IN
       /\ v.severity = (CASE v.scenario = "Scenario A" -> 15
                          [] v.scenario = "Scenario B" -> 30
                          [] v.scenario = "Scenario C" -> 50)
       /\ Len(v.frame) = Len(df[r])
       /\ \A i \in DOMAIN v.frame :
            LET row  == v.frame[i]
                loan == df[r][i]
                risk == DistrictRisk(loan.District)
                keep == 10000 - risk.Flood_Risk * v.severity
            IN  /\ \A c \in Range(Columns) : row[c] = loan[c]
                /\ row.Stressed_Value % keep = 0
                /\ (row.Stressed_Value \div keep) * 10000 = loan.Property_Value
                /\ row.Stressed_LTV = [num |-> loan.Loan_Amount, den |-> row.Stressed_Value]
                /\ row.Stressed_PD.num * (loan.Base_PD.den * 1000)
                     = loan.Base_PD.num * (1000 + risk.Heat_Risk * v.severity)
                         * row.Stressed_PD.den

(* a later run, on the cached portfolio, under the severest scenario: a
   Mumbai loan on a property of 8,000,000 stressed to 4,400,000 *)
C3_Witness ==
  \E r \in Renders : Shown(r) /\ path[r] = "cache" /\ view[r].scenario = "Scenario C" /\
    \E i \in DOMAIN view[r].frame :
      /\ view[r].frame[i].District = "Mumbai Suburban"
      /\ view[r].frame[i].Property_Value = 8000000
      /\ view[r].frame[i].Stressed_Value = 4400000

(* C7: the frame a generating invocation returns has exactly NumLoans rows
   (the loop's count), every row carries the flood risk, heat risk, latitude
   and longitude of the one row of the reference list for its district, and
   the file written holds exactly that frame. *)
C7_JoinedPortfolio ==
  \A r \in Renders : path[r] = "generated" =>
    /\ Len(df[r]) = NumLoans
    /\ \A i \in DOMAIN df[r] :
         LET row == df[r][i]
             hit == {j \in DOMAIN risk_data : risk_data[j].District = row.District}
         IN  /\ Cardinality(hit) = 1
             /\ Len(risk_data) = 8
             /\ \A j \in hit : /\ row.Flood_Risk = risk_data[j].Flood_Risk
                               /\ row.Heat_Risk = risk_data[j].Heat_Risk
                               /\ row.Lat = risk_data[j].Lat
                               /\ row.Lon = risk_data[j].Lon
    /\ file.exists
    /\ Len(file.lines) = NumLoans + 1
    /\ \A i \in DOMAIN df[r] :
         \A j \in DOMAIN Columns : file.lines[i + 1].fields[j] = df[r][i][Columns[j]]

(* a generated portfolio whose first loan is in Kolkata, the last district
   of the list, and whose last loan is in Mumbai, the first *)
C7_Witness ==
  \E r \in Renders :
    /\ path[r] = "generated"
    /\ Len(df[r]) = NumLoans
    /\ df[r][1].District = "Kolkata" /\ df[r][1].Lat = 2257 /\ df[r][1].Flood_Risk = 85
    /\ df[r][Len(df[r])].District = "Mumbai Suburban" /\ df[r][Len(df[r])].Lon = 7287

(* C8: every record of a generated portfolio has Property_Value > 0,
   Loan_Amount <= Property_Value with Loan_Amount the truncation of
   Property_Value times a fraction in [0.6, 0.85], Base_PD strictly between
   0 and 1, and Property_Value a multiple of 100,000 in 80..249 for Mumbai
   Suburban and Gurugram and in 30..89 for every other district. *)
C8_LoanConstraints ==
  \A r \in Renders : path[r] = "generated" =>
    \A i \in DOMAIN df[r] :
      LET row == df[r][i] IN
      /\ row.Property_Value > 0
      /\ row.Loan_Amount <= row.Property_Value
      /\ 20 * row.Loan_Amount <= 17 * row.Property_Value
      /\ 5 * (row.Loan_Amount + 1) > 3 * row.Property_Value
      /\ 0 < row.Base_PD.num /\ row.Base_PD.num < row.Base_PD.den
      /\ row.Property_Value % 100000 = 0
      /\ IF row.District \in {"Mumbai Suburban", "Gurugram"}
         THEN row.Property_Value \div 100000 \in 80 .. 249
         ELSE row.Property_Value \div 100000 \in 30 .. 89

(* a portfolio with a metro loan at the top of its range and a loan at the
   lowest fraction on a property at the bottom of the other range *)
C8_Witness ==
  \E r \in Renders : path[r] = "generated" /\
    \E i, j \in DOMAIN df[r] :
      /\ df[r][i].District = "Gurugram" /\ df[r][i].Property_Value = 24900000
      /\ df[r][j].District = "Jaipur" /\ df[r][j].Property_Value = 3000000
      /\ df[r][j].Loan_Amount = 1800000

(* the positions of the CRITICAL records of a frame, and the k-th of them *)
CriticalAt(frame) == {i \in DOMAIN frame : frame[i].Risk_Status = "CRITICAL"}

NthCritical(frame, k) ==
  CHOOSE i \in CriticalAt(frame) :
    Cardinality({j \in CriticalAt(frame) : j < i}) = k - 1

(* the sum of Loan_Amount over the CRITICAL records of a frame *)
CriticalLoanSum(frame) ==
  SumSeq([i \in DOMAIN frame |->
            IF frame[i].Risk_Status = "CRITICAL" THEN frame[i].Loan_Amount ELSE 0])

(* the count shown and the report are those of exactly the CRITICAL records *)
CountAndReportExact(v) ==
  /\ v.count_label = Cardinality(CriticalAt(v.frame))
  /\ Len(v.report) = Cardinality(CriticalAt(v.frame))
  /\ \A k \in DOMAIN v.report :
       LET row == v.frame[NthCritical(v.frame, k)] IN
       /\ v.report[k].Risk_Status = "CRITICAL"
       /\ v.report[k] = [ Loan_ID      |-> row.Loan_ID,
                          District     |-> row.District,
                          Loan_Amount  |-> row.Loan_Amount,
                          Stressed_LTV |-> row.Stressed_LTV,
                          Risk_Status  |-> row.Risk_Status ]

(* C9, as stated: the Capital at Risk shown (in hundredths of a crore) equals
   the sum of Loan_Amount over exactly the CRITICAL records divided by
   10,000,000; the count shown is the number of those records and the report
   holds exactly those records. *)
C9_ShownEqualsSum ==
  \A r \in Renders : Shown(r) =>
    /\ view[r].capital_label * 100000 = CriticalLoanSum(view[r].frame)
    /\ CountAndReportExact(view[r])

(* C9, amended: the capital_at_risk computed is that sum divided by
   10,000,000, and the Capital at Risk shown is it rounded to two decimals
   (at most half a hundredth of a crore away); the count shown is the number
   of the CRITICAL records and the report holds exactly those records. *)
C9_ShownIsRoundedSum ==
  \A r \in Renders : Shown(r) =>
    /\ view[r].capital_at_risk = [num |-> CriticalLoanSum(view[r].frame), den |-> 10000000]
    /\ view[r].capital_label * 100000 - CriticalLoanSum(view[r].frame) \in -50000 .. 50000
    /\ CountAndReportExact(view[r])

(* a frame with one CRITICAL and one SAFE record, the CRITICAL loan not a
   whole number of hundredths of a crore *)
C9_Witness ==
  \E r \in Renders : Shown(r) /\
    /\ view[r].count_label = 1
    /\ Len(view[r].frame) = 2
    /\ Len(view[r].report) = 1
    /\ view[r].capital_at_risk.num % 100000 # 0

(* C10: for every loan of the frame generate_data() returned and severities
   s1 < s2 among the three, the stressed value at s2 is at most that at s1,
   the stressed default probability at s2 at least that at s1, and a loan
   CRITICAL at s1 is CRITICAL at s2; so neither the number of CRITICAL
   loans nor their summed Loan_Amount decreases. *)
C10_MonotoneInSeverity ==
  \A r \in Renders : path[r] \in {"generated", "cache"} =>
    \A s1, s2 \in {15, 30, 50} : s1 < s2 =>
      LET f1 == StressEngine(df[r], s1)
          f2 == StressEngine(df[r], s2)
      IN  /\ \A i \in DOMAIN df[r] :
               /\ f2[i].Stressed_Value <= f1[i].Stressed_Value
               /\ f2[i].Stressed_PD.num * f1[i].Stressed_PD.den
                    >= f1[i].Stressed_PD.num * f2[i].Stressed_PD.den
               /\ f1[i].Risk_Status = "CRITICAL" => f2[i].Risk_Status = "CRITICAL"
          /\ Cardinality(CriticalAt(f1)) <= Cardinality(CriticalAt(f2))
          /\ CriticalLoanSum(f1) <= CriticalLoanSum(f2)

(* a portfolio with a loan that is SAFE under the mild scenario and
   CRITICAL under the severe one *)
C10_Witness ==
  \E r \in Renders : path[r] \in {"generated", "cache"} /\
    \E i \in DOMAIN df[r] :
      /\ StressEngine(df[r], 15)[i].Risk_Status = "SAFE"
      /\ StressEngine(df[r], 50)[i].Risk_Status = "CRITICAL"
      /\ StressEngine(df[r], 50)[i].Stressed_Value < StressEngine(df[r], 15)[i].Stressed_Value

(* the lines are not a whole portfolio: unreadable, or short of rows *)
Malformed(lines) == ~ Parses(lines) \/ Len(lines) # NumLoans + 1

(* C5, as stated: an invocation that finds the cache file missing or
   malformed regenerates the portfolio; none fails on, or returns, the
   content of a malformed file. *)
C5_MalformedRegenerates ==
  \A r \in Renders : path[r] \in {"cache", "error"} => ~ Malformed(seen[r])

(* C5, amended: an invocation that finds no cache file regenerates the
   portfolio and writes it as the new cache; an invocation that finds the
   file, malformed or not, regenerates and rewrites nothing: it fails when
   the file cannot be parsed and otherwise returns the rows the file holds. *)
C5_OnlyMissingRegenerates ==
  /\ \A k \in DOMAIN opens : ~ opens[k].existed
  /\ Len(opens) = Len(gens)
  /\ \A r \in Renders :
       /\ path[r] = "generated" =>
            /\ opens # <<>>
            /\ Len(df[r]) = NumLoans
            /\ file = [exists |-> TRUE, lines |-> ToCsv(df[r])]
       /\ path[r] = "error" =>
            /\ ~ Parses(seen[r])
            /\ pc[r] = "failed"
            /\ file = [exists |-> TRUE, lines |-> seen[r]]
       /\ path[r] = "cache" =>
            /\ Parses(seen[r])
            /\ Len(df[r]) = Len(seen[r]) - 1
            /\ \A i \in DOMAIN df[r] : \A j \in DOMAIN Columns :
                 df[r][i][Columns[j]] = seen[r][i + 1].fields[j]
            /\ file = [exists |-> TRUE, lines |-> seen[r]]
       /\ (path[r] # "none" /\ opens = <<>>) => Malformed(file.lines)

(* an invocation that found an empty cache file: it failed, and the file is
   still empty *)
C5_Witness ==
  \E r \in Renders :
    /\ path[r] = "error"
    /\ seen[r] = <<>>
    /\ file.exists /\ file.lines = <<>>
    /\ opens = <<>>

(* C4, as stated: an invocation that found the cache file present returned a
   frame, that frame is the one the first generating invocation returned,
   and so any two such invocations returned identical frames. *)
C4_CachedTableStable ==
  \A r \in Renders : path[r] \in {"cache", "error"} =>
    /\ path[r] = "cache"
    /\ gens # <<>>
    /\ df[r] = gens[1]
    /\ \A q \in Renders : path[q] = "cache" => df[q] = df[r]

(* C6, as stated: the file is opened for writing at most once, never while
   it exists and never by two runs at a time, and all runs that hold a
   frame hold the same one. *)
C6_SingleWriter ==
  /\ Len(opens) <= 1
  /\ \A k \in DOMAIN opens : ~ opens[k].existed
  /\ Cardinality({r \in Renders : pc[r] = "write"}) <= 1
  /\ \A r, q \in Renders :
       (path[r] \in {"generated", "cache"} /\ path[q] \in {"generated", "cache"})
         => df[r] = df[q]
====
